---- MODULE Spec2Model ----
(***************************************************************************)
(* Model of the C64 memory core of emudore (src/src/c64/memory.cpp):       *)
(* two 64 kB images (RAM, ROM), the three bank slots driven by the         *)
(* LORAM/HIRAM/CHAREN latch, the CPU-side byte and word accessors, the     *)
(* no-I/O accessors, the VIC-side read and the ROM/RAM patch passes.       *)
(*                                                                         *)
(* The images are tracked at the addresses of Addrs (every region of the   *)
(* decode, both ends of each window, and every address the patch passes    *)
(* and the word accessors reach from them); address arithmetic is 16 bit.  *)
(* The peripherals are external: a read_register answer is an input of     *)
(* the accessor and every register call is recorded in the call trace.     *)
(***************************************************************************)
EXTENDS Integers, Sequences, FiniteSets, TLC

VARIABLES mem_ram_, mem_rom_, banks_, latch, last, calls

vars == <<mem_ram_, mem_rom_, banks_, latch, last, calls>>

-----------------------------------------------------------------------------
(* Bounds of the exploration *)

\* number of calls explored after construction
MaxCalls == 3

-----------------------------------------------------------------------------
(* Declarations of c64/memory.h *)

kMemSize == 65536

kBaseAddrBasic == 40960
kBaseAddrChars == 53248
kBaseAddrKernal == 57344

kAddrDataDirection == 0
kAddrMemoryLayout == 1

kAddrZeroPage == 0
kAddrVicFirstPage == 53248
kAddrVicLastPage == 54016
kAddrSIDPage == 54272
kAddrCIA1Page == 56320
kAddrCIA2Page == 56576
kAddrBasicFirstPage == 40960
kAddrBasicLastPage == 48896
kAddrKernalFirstPage == 57344
kAddrKernalLastPage == 65280

kLORAM == 1
kHIRAM == 2
kCHAREN == 4

kROM == "ROM"
kRAM == "RAM"
kIO == "IO"

kBankBasic == 3
kBankCharen == 5
kBankKernal == 6

\* uint8_t banks_[7]
BankSlots == 0..6

Byte == 0..255

-----------------------------------------------------------------------------
(* Integer helpers: the C operators used by the source *)

\* (v & mask) != 0 for a one-bit mask
BitSet(v, mask) == (v \div mask) % 2 = 1

\* addr & 0xff00
PageOf(addr) == (addr \div 256) * 256

\* conversion to uint16_t
U16(x) == x % kMemSize

\* conversion to uint8_t
U8(x) == x % 256

-----------------------------------------------------------------------------
(* Tracked addresses *)

ZeroPageAddrs == {0, 1, 2, 45, 46}
LowRamAddrs ==
  {313, 314, 790, 791, 2049, 2050, 2051, 4096, 16383, 16384, 20480, 24575, 32767,
   32768, 36864}
BasicAddrs == {40960, 49151}
HighRamAddrs == {49152}
VicAddrs == {53248, 53280, 54271}
SidAddrs == {54272, 54527}
FreeIoAddrs == {54528, 55296, 56832, 57343}
Cia1Addrs == {56320, 56333}
Cia2Addrs == {56576, 56831}
KernalAddrs == {57344, 60335, 62660, 65535}

\* the 4 kB character / I-O region 0xD000..0xDFFF
CharenAddrs == VicAddrs \cup SidAddrs \cup FreeIoAddrs \cup Cia1Addrs \cup Cia2Addrs

Addrs ==
  ZeroPageAddrs \cup LowRamAddrs \cup BasicAddrs \cup HighRamAddrs
    \cup CharenAddrs \cup KernalAddrs

-----------------------------------------------------------------------------
(* Built-in images (c64/c64rom.h, c64/customrom.h).  The byte tables are   *)
(* not part of this development; they are stood in for by fixed tables     *)
(* whose bytes differ from the power-on RAM pattern, from every value the  *)
(* model writes and from the bytes patch_roms pokes over them.  The four   *)
(* unshifted keyboard-table entries that patch_roms replaces carry the     *)
(* bytes of the stock KERNAL (':' '@' '*' ';').                            *)

StockKeys == (60334 :> 58) @@ (60335 :> 64) @@ (60338 :> 42) @@ (60339 :> 59)

basicRomC64(i) == 96 + (i % 13)

charRomC64(i) == 112 + (i % 11)

kernalRomC64(i) ==
  IF kBaseAddrKernal + i \in DOMAIN StockKeys
    THEN StockKeys[kBaseAddrKernal + i]
    ELSE 129 + (i % 17)

\* micromon[i], 2 <= i < 4225
micromon(i) == 192 + (i % 5)

\* paku_prg[] (0-based in the source, 1-based here): load address 0x0801,
\* then the program bytes
paku_prg == <<1, 8, 11, 22, 33>>

paku_prg_size == Len(paku_prg)

-----------------------------------------------------------------------------
(* The memory object as a value: the fields of Memory plus the trace of    *)
(* peripheral register calls made by the running accessor.                 *)

\* mem_ram_[addr] = v / mem_rom_[addr] = v
Store(image, addr, v) ==
  IF addr \in DOMAIN image THEN [image EXCEPT ![addr] = v] ELSE image

\* one call of a peripheral's read_register / write_register
Call(dev, op, reg, val) == [dev |-> dev, op |-> op, reg |-> reg, val |-> val]

\* the pokes of patch_roms, in source order
RomPokes ==
  << <<60335, 91>>, <<60338, 93>>, <<60339, 39>>, <<60334, 59>>,
     <<60413, 64>>, <<60373, 94>>, <<60378, 38>>, <<60381, 42>>,
     <<60386, 40>>, <<60389, 41>>, <<60404, 34>>, <<60399, 58>>,
     <<60407, 43>>,
     <<62660, 169>>, <<62661, 4>>, <<62662, 141>>, <<62663, 2>>,
     <<62664, 0>>, <<62665, 165>>, <<62666, 144>>, <<62667, 74>>,
     <<62668, 74>>, <<62669, 176>>, <<62670, 97>>, <<62671, 32>>,
     <<62672, 210>>, <<62673, 245>>, <<62674, 24>>, <<62675, 166>>,
     <<62676, 174>>, <<62677, 164>>, <<62678, 175>>, <<62679, 96>>,
     <<62981, 169>>, <<62982, 5>>, <<62983, 141>>, <<62984, 2>>,
     <<62985, 0>>, <<62986, 24>>, <<62987, 96>> >>

\* the image patch_roms leaves: per address, the byte of its last poke
RomPatch ==
  [a \in {RomPokes[n][1] : n \in 1..Len(RomPokes)} |->
     LET n == CHOOSE k \in 1..Len(RomPokes) :
                /\ RomPokes[k][1] = a
                /\ \A j \in (k + 1)..Len(RomPokes) : RomPokes[j][1] # a
     IN  RomPokes[n][2]]

patch_roms(m) ==
  [m EXCEPT !.rom = [a \in DOMAIN m.rom |->
                       IF a \in DOMAIN RomPatch THEN RomPatch[a] ELSE m.rom[a]],
            !.patched = @ + 1]

\* BankRules with BASIC mapped to ROM on LORAM alone
BankRules_basic_on_loram(v) ==
  LET hiram == BitSet(v, kHIRAM)
      loram == BitSet(v, kLORAM)
      charen == BitSet(v, kCHAREN)
      b0 == [i \in BankSlots |-> kRAM]
      b1 == IF hiram THEN [b0 EXCEPT ![kBankKernal] = kROM] ELSE b0
      b2 == IF loram THEN [b1 EXCEPT ![kBankBasic] = kROM] ELSE b1
  IN  IF charen /\ (loram \/ hiram) THEN [b2 EXCEPT ![kBankCharen] = kIO]
      ELSE IF charen /\ ~loram /\ ~hiram THEN [b2 EXCEPT ![kBankCharen] = kRAM]
      ELSE [b2 EXCEPT ![kBankCharen] = kROM]

\* BankRules with the I-O windows mapped whenever CHAREN is set
BankRules_charen_io(v) ==
  LET hiram == BitSet(v, kHIRAM)
      loram == BitSet(v, kLORAM)
      charen == BitSet(v, kCHAREN)
      b0 == [i \in BankSlots |-> kRAM]
      b1 == IF hiram THEN [b0 EXCEPT ![kBankKernal] = kROM] ELSE b0
      b2 == IF loram /\ hiram THEN [b1 EXCEPT ![kBankBasic] = kROM] ELSE b1
  IN  IF charen THEN [b2 EXCEPT ![kBankCharen] = kIO]
      ELSE [b2 EXCEPT ![kBankCharen] = kROM]

\* the slot decisions of setup_memory_banks, from the all-RAM default
BankRules(v) ==
  LET hiram == BitSet(v, kHIRAM)
      loram == BitSet(v, kLORAM)
      charen == BitSet(v, kCHAREN)
      b0 == [i \in BankSlots |-> kRAM]
      b1 == IF hiram THEN [b0 EXCEPT ![kBankKernal] = kROM] ELSE b0
      b2 == IF loram /\ hiram THEN [b1 EXCEPT ![kBankBasic] = kROM] ELSE b1
  IN  IF charen /\ (loram \/ hiram) THEN [b2 EXCEPT ![kBankCharen] = kIO]
      ELSE IF charen /\ ~loram /\ ~hiram THEN [b2 EXCEPT ![kBankCharen] = kRAM]
      ELSE [b2 EXCEPT ![kBankCharen] = kROM]

\* write_byte_no_io switching banks at the bank-configuration address
write_byte_no_io_reconfig(m, addr, v) ==
  [m EXCEPT !.ram = Store(m.ram, addr, v),
            !.banks = IF addr = kAddrMemoryLayout THEN BankRules(v) ELSE @]

write_byte_no_io(m, addr, v) == [m EXCEPT !.ram = Store(m.ram, addr, v)]

\* the three copy loops of setup_memory_banks
LoadRoms(rom) ==
  [a \in DOMAIN rom |->
     IF a >= kBaseAddrKernal /\ a < kBaseAddrKernal + 8192
       THEN kernalRomC64(a - kBaseAddrKernal)
     ELSE IF a >= kBaseAddrChars /\ a < kBaseAddrChars + 4096
       THEN charRomC64(a - kBaseAddrChars)
     ELSE IF a >= kBaseAddrBasic /\ a < kBaseAddrBasic + 8192
       THEN basicRomC64(a - kBaseAddrBasic)
     ELSE rom[a]]

\* setup_memory_banks storing only the three latch bits in the zero page
setup_memory_banks_masked(m, v) ==
  LET m1 == patch_roms([m EXCEPT !.rom = LoadRoms(m.rom)])
      m2 == [m1 EXCEPT !.banks = BankRules(v), !.latch = v]
  IN  write_byte_no_io(m2, kAddrMemoryLayout, v % 8)

\* setup_memory_banks without the reset to RAM: BASIC and KERNAL keep their
\* assignment when the rules do not make them ROM
setup_memory_banks_no_reset(m, v) ==
  LET m1 == patch_roms([m EXCEPT !.rom = LoadRoms(m.rom)])
      kept == [i \in BankSlots |->
                 IF i \in {kBankBasic, kBankKernal} /\ BankRules(v)[i] = kRAM
                   THEN m.banks[i] ELSE BankRules(v)[i]]
      m2 == [m1 EXCEPT !.banks = kept, !.latch = v]
  IN  write_byte_no_io(m2, kAddrMemoryLayout, v)

\* setup_memory_banks copying the ROM images over RAM as well
setup_memory_banks_loads_ram(m, v) ==
  LET m1 == patch_roms([m EXCEPT !.rom = LoadRoms(m.rom),
                                 !.ram = LoadRoms(m.ram)])
      m2 == [m1 EXCEPT !.banks = BankRules(v), !.latch = v]
  IN  write_byte_no_io(m2, kAddrMemoryLayout, v)

setup_memory_banks(m, v) ==
  LET m1 == patch_roms([m EXCEPT !.rom = LoadRoms(m.rom)])
      m2 == [m1 EXCEPT !.banks = BankRules(v), !.latch = v]
  IN  write_byte_no_io(m2, kAddrMemoryLayout, v)

patch_ram(m) ==
  LET r1 == [a \in DOMAIN m.ram |->
               IF a >= 36864 /\ a < 36864 + 4223
                 THEN micromon(a - 36864 + 2) ELSE m.ram[a]]
      r2 == Store(Store(r1, 790, 0), 791, 144)
      sz == paku_prg_size
      loadAddr == (paku_prg[2] * 256) + paku_prg[1]
      r3 == [a \in DOMAIN r2 |->
               IF \E i \in 2..(sz - 1) : U16(loadAddr + i - 2) = a
                 THEN paku_prg[(CHOOSE i \in 2..(sz - 1) :
                                  U16(loadAddr + i - 2) = a) + 1]
                 ELSE r2[a]]
      r4 == Store(Store(r3, 45, U8(2049 + sz - 2)),
                  46, U8((2049 + sz - 2) \div 256))
  IN  [m EXCEPT !.ram = r4]

\* mem_ram_[addr] = v on the path of write_byte
RamWrite(m, addr, v) == [m EXCEPT !.ram = Store(m.ram, addr, v)]

\* <peripheral>->write_register(reg, v)
RegWrite(m, dev, reg, v) ==
  [m EXCEPT !.io = Append(@, Call(dev, "write_register", reg, v))]

\* the page tests of write_byte and read_byte
IsZeroPage(page) == page = kAddrZeroPage

IsVicPage(page) == page >= kAddrVicFirstPage /\ page <= kAddrVicLastPage

IsCia1Page(page) == page = kAddrCIA1Page

IsCia2Page(page) == page = kAddrCIA2Page

\* the SID test widened to the chip's whole 0xD400..0xD7FF range
IsSidPage_wide(page) == page >= kAddrSIDPage /\ page <= 55040

IsSidPage(page) == page = kAddrSIDPage

IsBasicPage(page) == page >= kAddrBasicFirstPage /\ page <= kAddrBasicLastPage

IsKernalPage(page) == page >= kAddrKernalFirstPage /\ page <= kAddrKernalLastPage

\* ZeroPageWrite treating the bank-configuration address as plain RAM
ZeroPageWrite_plain(m, addr, v) == RamWrite(m, addr, v)

\* the branches of write_byte
ZeroPageWrite(m, addr, v) ==
  IF addr = kAddrMemoryLayout THEN setup_memory_banks(m, v)
  ELSE RamWrite(m, addr, v)

VicWrite(m, addr, v) ==
  IF m.banks[kBankCharen] = kIO THEN RegWrite(m, "vic", addr % 128, v)
  ELSE RamWrite(m, addr, v)

Cia1Write(m, addr, v) ==
  IF m.banks[kBankCharen] = kIO THEN RegWrite(m, "cia1", addr % 16, v)
  ELSE RamWrite(m, addr, v)

Cia2Write(m, addr, v) ==
  IF m.banks[kBankCharen] = kIO THEN RegWrite(m, "cia2", addr % 16, v)
  ELSE RamWrite(m, addr, v)

SidWrite(m, addr, v) ==
  IF m.banks[kBankCharen] = kIO THEN RegWrite(m, "sid", addr % 256, v)
  ELSE RamWrite(m, addr, v)

\* DefaultWrite dropping the store while ROM answers reads of the address
DefaultWrite_rom_protected(m, addr, v) ==
  IF \/ IsBasicPage(PageOf(addr)) /\ m.banks[kBankBasic] = kROM
     \/ IsKernalPage(PageOf(addr)) /\ m.banks[kBankKernal] = kROM
    THEN m
  ELSE IF addr = 313 /\ v = 255 THEN patch_ram(RamWrite(m, addr, v))
  ELSE RamWrite(m, addr, v)

\* a default-branch write that lands in the ROM image while ROM is mapped
DefaultWrite_into_rom(m, addr, v) ==
  IF \/ IsBasicPage(PageOf(addr)) /\ m.banks[kBankBasic] = kROM
     \/ IsKernalPage(PageOf(addr)) /\ m.banks[kBankKernal] = kROM
    THEN [m EXCEPT !.rom = Store(@, addr, v)]
  ELSE IF addr = 313 /\ v = 255 THEN patch_ram(RamWrite(m, addr, v))
  ELSE RamWrite(m, addr, v)

\* DefaultWrite injecting on the address or the value alone
DefaultWrite_either(m, addr, v) ==
  IF addr = 313 \/ v = 255 THEN patch_ram(RamWrite(m, addr, v))
  ELSE RamWrite(m, addr, v)

DefaultWrite(m, addr, v) ==
  IF addr = 313 /\ v = 255 THEN patch_ram(RamWrite(m, addr, v))
  ELSE RamWrite(m, addr, v)

write_byte(m, addr, v) ==
  LET page == PageOf(addr)
  IN  IF IsZeroPage(page) THEN ZeroPageWrite(m, addr, v)
      ELSE IF IsVicPage(page) THEN VicWrite(m, addr, v)
      ELSE IF IsCia1Page(page) THEN Cia1Write(m, addr, v)
      ELSE IF IsCia2Page(page) THEN Cia2Write(m, addr, v)
      ELSE IF IsSidPage(page) THEN SidWrite(m, addr, v)
      ELSE DefaultWrite(m, addr, v)

\* retval = mem_ram_[addr] / retval = mem_rom_[addr]
RamRead(m, addr) == [ret |-> m.ram[addr], io |-> <<>>]

RomRead(m, addr) == [ret |-> m.rom[addr], io |-> <<>>]

\* retval = <peripheral>->read_register(reg); pv is the peripheral's answer
RegRead(dev, reg, pv) ==
  [ret |-> pv, io |-> <<Call(dev, "read_register", reg, pv)>>]

\* the branches of read_byte
VicRead(m, addr, pv) ==
  IF m.banks[kBankCharen] = kIO THEN RegRead("vic", addr % 128, pv)
  ELSE IF m.banks[kBankCharen] = kROM THEN RomRead(m, addr)
  ELSE RamRead(m, addr)

Cia1Read(m, addr, pv) ==
  IF m.banks[kBankCharen] = kIO THEN RegRead("cia1", addr % 16, pv)
  ELSE RamRead(m, addr)

Cia2Read(m, addr, pv) ==
  IF m.banks[kBankCharen] = kIO THEN RegRead("cia2", addr % 16, pv)
  ELSE RamRead(m, addr)

\* BasicRead answering from the ROM image whatever the bank slot says
BasicRead_always_rom(m, addr) == RomRead(m, addr)

BasicRead(m, addr) ==
  IF m.banks[kBankBasic] = kROM THEN RomRead(m, addr) ELSE RamRead(m, addr)

\* KernalRead answering from the RAM image whatever the bank slot says
KernalRead_always_ram(m, addr) == RamRead(m, addr)

KernalRead(m, addr) ==
  IF m.banks[kBankKernal] = kROM THEN RomRead(m, addr) ELSE RamRead(m, addr)

read_byte(m, addr, pv) ==
  LET page == PageOf(addr)
  IN  IF IsVicPage(page) THEN VicRead(m, addr, pv)
      ELSE IF IsCia1Page(page) THEN Cia1Read(m, addr, pv)
      ELSE IF IsCia2Page(page) THEN Cia2Read(m, addr, pv)
      ELSE IF IsBasicPage(page) THEN BasicRead(m, addr)
      ELSE IF IsKernalPage(page) THEN KernalRead(m, addr)
      ELSE RamRead(m, addr)

read_byte_no_io(m, addr) == m.ram[addr]

\* Memory::Memory()
Memory ==
  LET m0 == [ram |-> [a \in Addrs |-> IF (a \div 2) * 2 = a THEN 0 ELSE 255],
             rom |-> [a \in Addrs |-> 0],
             banks |-> [i \in BankSlots |-> kROM],
             latch |-> 0,
             io |-> <<>>,
             patched |-> 0]
  IN  write_byte_no_io(setup_memory_banks(m0, kLORAM + kHIRAM + kCHAREN),
                       kAddrDataDirection, 47)

read_word(m, addr, pv1, pv2) ==
  LET lo == read_byte(m, addr, pv1)
      hi == read_byte(m, U16(addr + 1), pv2)
  IN  [ret |-> lo.ret + 256 * hi.ret, lo |-> lo.io, hi |-> hi.io]

read_word_no_io(m, addr) ==
  read_byte_no_io(m, addr) + 256 * read_byte_no_io(m, U16(addr + 1))

\* write_word storing the high byte first, at the lower address
write_word_big_endian(m, addr, v) ==
  write_byte(write_byte(m, addr, U8(v \div 256)), U16(addr + 1), U8(v))

write_word(m, addr, v) ==
  write_byte(write_byte(m, addr, U8(v)), U16(addr + 1), U8(v \div 256))

write_word_no_io(m, addr, v) ==
  write_byte_no_io(write_byte_no_io(m, addr, U8(v)), U16(addr + 1), U8(v \div 256))

\* vic_read_byte with the first character window only
vic_read_byte_one_window(m, addr, base) ==
  LET vic_addr == U16(base + (addr % 16384))
  IN  IF vic_addr >= 4096 /\ vic_addr < 8192
        THEN m.rom[kBaseAddrChars + (vic_addr % 4096)]
        ELSE read_byte_no_io(m, vic_addr)

\* vic_read_byte going through the CPU's view outside the windows
vic_read_byte_cpu_view(m, addr, base) ==
  LET vic_addr == U16(base + (addr % 16384))
  IN  IF (vic_addr >= 4096 /\ vic_addr < 8192)
           \/ (vic_addr >= 36864 /\ vic_addr < 40960)
        THEN m.rom[kBaseAddrChars + (vic_addr % 4096)]
        ELSE read_byte(m, vic_addr, 0).ret

\* base is what cia2_->vic_base_address() answers
vic_read_byte(m, addr, base) ==
  LET vic_addr == U16(base + (addr % 16384))
  IN  IF (vic_addr >= 4096 /\ vic_addr < 8192)
           \/ (vic_addr >= 36864 /\ vic_addr < 40960)
        THEN m.rom[kBaseAddrChars + (vic_addr % 4096)]
        ELSE read_byte_no_io(m, vic_addr)

-----------------------------------------------------------------------------
(* Inputs of the calls *)

\* addresses of the byte accessors: every branch of the decode, both ends
\* of the windows, the injection trigger and the patched KERNAL bytes
ByteAddrs ==
  {0, 313, 40960, 53248, 54271, 54272, 55296, 56320, 56576, 60335}

\* values written to data addresses (255 arms the injection trigger)
Vals == {66, 255}

\* values written to the bank-configuration address: the eight latch
\* settings and the power-on value 0x37
CfgVals == (0..7) \cup {55}

\* answers of a peripheral's read_register
PeriphVals == {17, 238}

NoIoAddrs == {1, 313, 53248, 60335}

NoIoVals == {66, 255}

\* word accesses: across the bank-configuration address, across the end of
\* a peripheral window, across the end of the I-O region, across 0xFFFF
WordAddrs == {0, 54271, 65535}

WordVals == {1346, 16901}

\* relative addresses of the VIC and the bases cia2 supplies
VicRel == {0, 4096, 16383, 24575}

VicBases == {0, 16384, 32768, 49152}

-----------------------------------------------------------------------------
(* The state machine: one action per public call *)

Cur ==
  [ram |-> mem_ram_, rom |-> mem_rom_, banks |-> banks_, latch |-> latch,
   io |-> <<>>, patched |-> 0]

Rec(op, addr, val, ret, io) ==
  [op |-> op, addr |-> addr, val |-> val, ret |-> ret, io |-> io]

Commit(m, rec) ==
  /\ mem_ram_' = m.ram
  /\ mem_rom_' = m.rom
  /\ banks_' = m.banks
  /\ latch' = m.latch
  /\ last' = [op |-> rec.op, addr |-> rec.addr, val |-> rec.val,
               ret |-> rec.ret, io |-> rec.io, patched |-> m.patched]

Init ==
  /\ mem_ram_ = Memory.ram
  /\ mem_rom_ = Memory.rom
  /\ banks_ = Memory.banks
  /\ latch = Memory.latch
  /\ last = [op |-> "Memory", addr |-> 0, val |-> 0, ret |-> 0,
             io |-> Memory.io, patched |-> Memory.patched]
  /\ calls = 0

WriteByteAt(A, V) ==
  \E addr \in A, v \in V :
    /\ calls < MaxCalls
    /\ LET m == write_byte(Cur, addr, v)
       IN  Commit(m, Rec("write_byte", addr, v, 0, m.io))
    /\ calls' = calls + 1

WriteByte == WriteByteAt(ByteAddrs, Vals)

WriteConfig == WriteByteAt({kAddrMemoryLayout}, CfgVals)

WriteByteNoIoAt(A, V) ==
  \E addr \in A, v \in V :
    /\ calls < MaxCalls
    /\ LET m == write_byte_no_io(Cur, addr, v)
       IN  Commit(m, Rec("write_byte_no_io", addr, v, 0, m.io))
    /\ calls' = calls + 1

WriteByteNoIo == WriteByteNoIoAt(NoIoAddrs, NoIoVals)

WriteWord ==
  \E addr \in WordAddrs, v \in WordVals :
    /\ calls < MaxCalls
    /\ LET m == write_word(Cur, addr, v)
       IN  Commit(m, Rec("write_word", addr, v, 0, m.io))
    /\ calls' = calls + 1

WriteWordNoIo ==
  \E addr \in WordAddrs, v \in WordVals :
    /\ calls < MaxCalls
    /\ LET m == write_word_no_io(Cur, addr, v)
       IN  Commit(m, Rec("write_word_no_io", addr, v, 0, m.io))
    /\ calls' = calls + 1

ReadByteAt(A) ==
  \E addr \in A, pv \in PeriphVals :
    /\ calls < MaxCalls
    /\ LET r == read_byte(Cur, addr, pv)
       IN  Commit(Cur, Rec("read_byte", addr, 0, r.ret, r.io))
    /\ calls' = calls + 1

ReadByte == ReadByteAt(ByteAddrs \cup {kAddrMemoryLayout})

ReadByteNoIo ==
  \E addr \in NoIoAddrs :
    /\ calls < MaxCalls
    /\ Commit(Cur, Rec("read_byte_no_io", addr, 0, read_byte_no_io(Cur, addr), <<>>))
    /\ calls' = calls + 1

\* the two operands of | in read_word are unsequenced: either register
\* call may come first
ReadWord ==
  \E addr \in WordAddrs, pv1 \in PeriphVals :
    \E pv2 \in PeriphVals \ {pv1} :
    /\ calls < MaxCalls
    /\ LET r == read_word(Cur, addr, pv1, pv2)
       IN  \/ Commit(Cur, Rec("read_word", addr, 0, r.ret, r.lo \o r.hi))
           \/ Commit(Cur, Rec("read_word", addr, 0, r.ret, r.hi \o r.lo))
    /\ calls' = calls + 1

ReadWordNoIo ==
  \E addr \in WordAddrs :
    /\ calls < MaxCalls
    /\ Commit(Cur, Rec("read_word_no_io", addr, 0, read_word_no_io(Cur, addr), <<>>))
    /\ calls' = calls + 1

VicReadByte ==
  \E addr \in VicRel, base \in VicBases :
    /\ calls < MaxCalls
    /\ Commit(Cur, Rec("vic_read_byte", addr, base, vic_read_byte(Cur, addr, base), <<>>))
    /\ calls' = calls + 1

Next ==
  \/ WriteByte
  \/ WriteConfig
  \/ WriteByteNoIo
  \/ WriteWord
  \/ WriteWordNoIo
  \/ ReadByte
  \/ ReadByteNoIo
  \/ ReadWord
  \/ ReadWordNoIo
  \/ VicReadByte

Spec == Init /\ [][Next]_vars

\* The bank-configuration address alone, written with every byte value
WriteAnyConfig == WriteByteAt({kAddrMemoryLayout}, Byte)

ReadConfig == ReadByteAt({kAddrMemoryLayout})

WriteConfigNoIo == WriteByteNoIoAt({kAddrMemoryLayout, 60335}, {66})

NextCfg ==
  \/ WriteAnyConfig
  \/ ReadConfig
  \/ WriteConfigNoIo

SpecCfg == Init /\ [][NextCfg]_vars

TypeOK ==
  /\ mem_ram_ \in [Addrs -> Byte]
  /\ mem_rom_ \in [Addrs -> Byte]
  /\ banks_ \in [BankSlots -> {kROM, kRAM, kIO}]
  /\ latch \in Byte
  /\ calls \in 0..MaxCalls

-----------------------------------------------------------------------------
(* Vocabulary of the properties: the latch bits, the regions and the       *)
(* peripheral windows as the specification names them.                     *)

Loram(v) == v % 2 = 1

Hiram(v) == (v \div 2) % 2 = 1

Charen(v) == (v \div 4) % 2 = 1

\* the peripheral that owns address a, or "none"
Window(a) ==
  IF a >= 53248 /\ a <= 54271 THEN "vic"
  ELSE IF a >= 54272 /\ a <= 54527 THEN "sid"
  ELSE IF a >= 56320 /\ a <= 56575 THEN "cia1"
  ELSE IF a >= 56576 /\ a <= 56831 THEN "cia2"
  ELSE "none"

\* the address within the owning peripheral's register space
Local(a) ==
  IF Window(a) = "vic" THEN a % 128
  ELSE IF Window(a) = "sid" THEN a % 256
  ELSE a % 16

InCharenRegion(a) == a >= 53248 /\ a <= 57343

InBasicRegion(a) == a >= 40960 /\ a <= 49151

InKernalRegion(a) == a >= 57344 /\ a <= 65535

\* the ROM image the construction installs at a KERNAL address: the
\* built-in byte, or the byte patch_roms pokes over it
PatchedKernal(a) ==
  IF a \in DOMAIN RomPatch THEN RomPatch[a] ELSE kernalRomC64(a - 57344)

ConfigWritten == last.op = "write_byte" /\ last.addr = kAddrMemoryLayout

-----------------------------------------------------------------------------
(* C1: after write_byte(kAddrMemoryLayout, v), for every byte v, KERNAL is *)
(* ROM iff HIRAM is set; BASIC is ROM iff LORAM and HIRAM are set; CHAREN  *)
(* is IO if CHAREN and one of LORAM/HIRAM are set, RAM if CHAREN alone is  *)
(* set, ROM if CHAREN is clear.                                            *)
C1_RuleTable ==
  ConfigWritten =>
    LET v == last.val
    IN  /\ banks_[kBankKernal] = (IF Hiram(v) THEN kROM ELSE kRAM)
        /\ banks_[kBankBasic] = (IF Loram(v) /\ Hiram(v) THEN kROM ELSE kRAM)
        /\ banks_[kBankCharen] =
             (IF Charen(v)
                THEN (IF Loram(v) \/ Hiram(v) THEN kIO ELSE kRAM)
                ELSE kROM)

\* 0x35 written (LORAM and CHAREN set, HIRAM clear, upper bits set)
C1_Witness ==
  /\ ConfigWritten
  /\ last.val = 53
  /\ banks_[kBankKernal] = kRAM
  /\ banks_[kBankBasic] = kRAM
  /\ banks_[kBankCharen] = kIO

(* C2: a write_byte(a, v) that is not forwarded to a peripheral is read    *)
(* back by read_byte_no_io(a), ROM-shadowed addresses and the              *)
(* bank-configuration address included.                                    *)
C2_WriteReadsBackNoIo ==
  (last.op = "write_byte"
     /\ ~(Window(last.addr) # "none" /\ banks_[kBankCharen] = kIO))
    => read_byte_no_io(Cur, last.addr) = last.val

\* a write under the KERNAL ROM lands in the hidden RAM
C2_Witness ==
  /\ last.op = "write_byte"
  /\ last.addr = 60335
  /\ banks_[kBankKernal] = kROM
  /\ read_byte_no_io(Cur, 60335) = 66
  /\ mem_rom_[60335] # 66

(* C3 as stated: with HIRAM set, LORAM and CHAREN clear, KERNAL and CHAREN *)
(* are ROM and read_byte at every KERNAL address returns the built-in      *)
(* KERNAL ROM byte.                                                        *)
C3_BuiltInKernal ==
  (Hiram(latch) /\ ~Loram(latch) /\ ~Charen(latch)) =>
    /\ banks_[kBankKernal] = kROM
    /\ banks_[kBankCharen] = kROM
    /\ (last.op = "read_byte" /\ InKernalRegion(last.addr))
         => last.ret = kernalRomC64(last.addr - 57344)

(* C3 amended: with HIRAM set, LORAM and CHAREN clear, KERNAL and CHAREN   *)
(* are ROM and read_byte at every KERNAL address returns the installed ROM *)
(* image byte (the built-in byte, or the byte patch_roms put in its        *)
(* place), whatever was written to that address, without a register call.  *)
C3_PatchedKernal ==
  (Hiram(latch) /\ ~Loram(latch) /\ ~Charen(latch)) =>
    /\ banks_[kBankKernal] = kROM
    /\ banks_[kBankCharen] = kROM
    /\ \A a \in KernalAddrs, pv \in PeriphVals :
         read_byte(Cur, a, pv) = [ret |-> PatchedKernal(a), io |-> <<>>]

\* 66 written to the patched key-table byte 0xEBAF, latch set to 2, read
C3_Witness ==
  /\ latch = 2
  /\ last.op = "read_byte"
  /\ last.addr = 60335
  /\ last.ret = 91
  /\ mem_ram_[60335] = 66

(* C4: while CHAREN is assigned ROM, read_byte at every address of the     *)
(* 4 kB character / I-O region returns the ROM image byte.                 *)
C4_CharenRomEverywhere ==
  (banks_[kBankCharen] = kROM
     /\ last.op = "read_byte" /\ InCharenRegion(last.addr))
    => last.ret = mem_rom_[last.addr]

(* C5: with LORAM and HIRAM clear, BASIC and KERNAL are RAM and a          *)
(* write_byte(a, v) in those regions is returned by read_byte(a).          *)
C5_BasicKernalPlainRam ==
  (~Loram(latch) /\ ~Hiram(latch)) =>
    /\ banks_[kBankBasic] = kRAM
    /\ banks_[kBankKernal] = kRAM
    /\ \A a \in BasicAddrs \cup KernalAddrs, pv \in PeriphVals :
         read_byte(Cur, a, pv) = [ret |-> mem_ram_[a], io |-> <<>>]
    /\ (last.op = "write_byte"
          /\ (InBasicRegion(last.addr) \/ InKernalRegion(last.addr)))
         => \A pv \in PeriphVals :
              read_byte(Cur, last.addr, pv).ret = last.val

\* latch cleared, 66 written to 0xEBAF, read back
C5_Witness ==
  /\ ~Loram(latch) /\ ~Hiram(latch)
  /\ last.op = "read_byte"
  /\ last.addr = 60335
  /\ last.ret = 66
  /\ mem_rom_[60335] = 91

(* C6: with CHAREN set and LORAM, HIRAM clear, the CHAREN region is RAM:   *)
(* read_byte and write_byte there act on the RAM image and make no         *)
(* register call.                                                          *)
C6_CharenAloneIsRam ==
  (Charen(latch) /\ ~Loram(latch) /\ ~Hiram(latch)) =>
    /\ banks_[kBankCharen] = kRAM
    /\ \A a \in CharenAddrs, pv \in PeriphVals :
         read_byte(Cur, a, pv) = [ret |-> mem_ram_[a], io |-> <<>>]
    /\ \A a \in CharenAddrs, v \in Vals :
         LET m == write_byte(Cur, a, v)
         IN  /\ m.io = <<>>
             /\ m.ram = [mem_ram_ EXCEPT ![a] = v]
    /\ (last.op \in {"read_byte", "write_byte"} /\ InCharenRegion(last.addr))
         => last.io = <<>>

\* latch 4, 66 written to the first CIA1 register address
C6_Witness ==
  /\ latch = 4
  /\ last.op = "write_byte"
  /\ last.addr = 56320
  /\ last.io = <<>>
  /\ mem_ram_[56320] = 66

(* C7: after write_byte(kAddrMemoryLayout, v), for every byte v,           *)
(* read_byte(kAddrMemoryLayout) returns v; the read of that address is a   *)
(* RAM read in every bank configuration.                                   *)
C7_ConfigReadsBack ==
  /\ \A pv \in PeriphVals :
       read_byte(Cur, kAddrMemoryLayout, pv)
         = [ret |-> mem_ram_[kAddrMemoryLayout], io |-> <<>>]
  /\ ConfigWritten =>
       \A pv \in PeriphVals :
         read_byte(Cur, kAddrMemoryLayout, pv).ret = last.val

\* 0xC8 written, then read back
C7_Witness ==
  /\ latch = 200
  /\ last.op = "read_byte"
  /\ last.addr = kAddrMemoryLayout
  /\ last.ret = 200

(* C8: write_byte_no_io(a, v) changes only the RAM byte at a;              *)
(* read_byte_no_io(a) returns the RAM byte at a and changes nothing; the   *)
(* word variants do the same for a and a+1; none of them reconfigures,     *)
(* changes the ROM image or calls a peripheral.                            *)
C8_NoIoFrame ==
  [][ LET a == last'.addr
          v == last'.val
          quiet == /\ mem_rom_' = mem_rom_
                   /\ banks_' = banks_
                   /\ latch' = latch
                   /\ last'.io = <<>>
      IN  /\ last'.op = "write_byte_no_io" =>
               quiet /\ mem_ram_' = [mem_ram_ EXCEPT ![a] = v]
          /\ last'.op = "write_word_no_io" =>
               quiet /\ mem_ram_' = [mem_ram_ EXCEPT ![a] = v % 256,
                                                     ![(a + 1) % 65536] = v \div 256]
          /\ last'.op = "read_byte_no_io" =>
               quiet /\ mem_ram_' = mem_ram_ /\ last'.ret = mem_ram_[a]
          /\ last'.op = "read_word_no_io" =>
               quiet /\ mem_ram_' = mem_ram_
                     /\ last'.ret = mem_ram_[a] + 256 * mem_ram_[(a + 1) % 65536]
    ]_vars

\* 66 stored at the bank-configuration address: the banks stay as the
\* latch 7 set them
C8_Witness ==
  /\ last.op = "write_byte_no_io"
  /\ last.addr = kAddrMemoryLayout
  /\ mem_ram_[kAddrMemoryLayout] = 66
  /\ latch = 7
  /\ banks_[kBankCharen] = kIO
  /\ banks_[kBankBasic] = kROM

(* C9: while CHAREN is assigned IO, read_byte and write_byte at an address *)
(* of any of the four peripheral windows are forwarded to that window's    *)
(* peripheral with the local register address, and the write leaves the    *)
(* RAM image alone.                                                        *)
C9_WindowsForwarded ==
  [][ LET a == last'.addr
          dev == Window(a)
      IN  (banks_[kBankCharen] = kIO /\ dev # "none") =>
            /\ last'.op = "read_byte" =>
                 last'.io = <<Call(dev, "read_register", Local(a), last'.ret)>>
            /\ last'.op = "write_byte" =>
                 /\ last'.io = <<Call(dev, "write_register", Local(a), last'.val)>>
                 /\ mem_ram_' = mem_ram_
    ]_vars

(* C10: while CHAREN is assigned IO, read_byte and write_byte at an        *)
(* address of the CHAREN region outside the four peripheral windows act    *)
(* on the RAM image and make no register call.                             *)
C10_UnclaimedIsRam ==
  banks_[kBankCharen] = kIO =>
    /\ \A a \in CharenAddrs :
         Window(a) = "none" =>
           /\ \A pv \in PeriphVals :
                read_byte(Cur, a, pv) = [ret |-> mem_ram_[a], io |-> <<>>]
           /\ \A v \in Vals :
                LET m == write_byte(Cur, a, v)
                IN  /\ m.io = <<>>
                    /\ m.ram = [mem_ram_ EXCEPT ![a] = v]
    /\ (last.op \in {"read_byte", "write_byte"}
          /\ InCharenRegion(last.addr) /\ Window(last.addr) = "none")
         => last.io = <<>>

\* 66 written to 0xD800 while the I-O windows are mapped
C10_Witness ==
  /\ banks_[kBankCharen] = kIO
  /\ last.op = "write_byte"
  /\ last.addr = 55296
  /\ last.io = <<>>
  /\ mem_ram_[55296] = 66

-----------------------------------------------------------------------------
(* The video side *)

\* the address the video chip's relative address r selects under base
VicAddr(r, base) == base + (r % 16384)

InCharWindow(va) ==
  (va >= 4096 /\ va <= 8191) \/ (va >= 36864 /\ va <= 40959)

VicSideRead == last.op = "vic_read_byte"

(* C11: vic_read_byte(r) with vic_addr = base + (r & 0x3FFF) inside        *)
(* 0x1000..0x1FFF or 0x9000..0x9FFF returns the character ROM image byte   *)
(* at offset vic_addr & 0x0FFF, whatever the CPU bank configuration is and *)
(* whatever RAM holds at vic_addr.                                         *)
C11_CharWindows ==
  /\ \A r \in VicRel, base \in VicBases :
       InCharWindow(VicAddr(r, base))
         => vic_read_byte(Cur, r, base) = charRomC64(VicAddr(r, base) % 4096)
  /\ (VicSideRead /\ InCharWindow(VicAddr(last.addr, last.val)))
       => last.ret = charRomC64(VicAddr(last.addr, last.val) % 4096)

\* a read through the second window while the CPU sees RAM at 0xD000 and
\* RAM at 0x9000 holds another byte than the character image
C11_Witness ==
  /\ VicSideRead /\ last.addr = 4096 /\ last.val = 32768
  /\ banks_[kBankCharen] = kRAM
  /\ mem_ram_[36864] # charRomC64(0)
  /\ last.ret = charRomC64(0)

\* every assignment the three switchable slots can take
AnyBanks ==
  { [b \in BankSlots |-> IF b = kBankBasic THEN x
                         ELSE IF b = kBankCharen THEN y
                         ELSE IF b = kBankKernal THEN z
                         ELSE kRAM] : x, y, z \in {kROM, kRAM, kIO} }

(* C12: the byte vic_read_byte(r) returns does not depend on the CPU bank  *)
(* assignment: with RAM, ROM and base equal it is the same under every     *)
(* assignment; outside the character windows it is the RAM byte at         *)
(* base + (r & 0x3FFF), never BASIC or KERNAL ROM; the call reaches no     *)
(* peripheral register and changes no RAM byte, ROM byte or assignment.    *)
C12_VicViewIndependent ==
  [][ last'.op = "vic_read_byte" =>
        LET r == last'.addr
            base == last'.val
        IN  /\ \A b \in AnyBanks :
                 vic_read_byte([Cur EXCEPT !.banks = b], r, base) = last'.ret
            /\ ~InCharWindow(VicAddr(r, base))
                 => last'.ret = mem_ram_[VicAddr(r, base)]
            /\ last'.io = <<>>
            /\ UNCHANGED <<mem_ram_, mem_rom_, banks_, latch>> ]_vars

\* a video-side read of 0xFFFF while the CPU sees KERNAL ROM there
C12_Witness ==
  /\ VicSideRead /\ last.addr = 16383 /\ last.val = 49152
  /\ banks_[kBankKernal] = kROM
  /\ mem_ram_[65535] # mem_rom_[65535]
  /\ last.ret = mem_ram_[65535]

-----------------------------------------------------------------------------
(* The word accessors *)

Next16(a) == (a + 1) % 65536

LowByte(v) == v % 256

HighByte(v) == v \div 256

(* C13: a word access is two byte accesses of the same kind, low byte at   *)
(* a and high byte at (a + 1) mod 65536: read_word(a) returns              *)
(* read_byte(a) + 256 * read_byte((a + 1) mod 65536); write_word(a, v)     *)
(* has the effect of write_byte(a, v mod 256) followed by                  *)
(* write_byte((a + 1) mod 65536, v div 256), in that order, also across    *)
(* the configuration address and the I/O windows; read_word_no_io after    *)
(* write_word_no_io(a, v) returns v.                                       *)
C13_WordsAreTwoBytes ==
  [][ /\ last'.op = "read_word" =>
           /\ \E pv1 \in PeriphVals, pv2 \in PeriphVals :
                LET lo == read_byte(Cur, last'.addr, pv1)
                    hi == read_byte(Cur, Next16(last'.addr), pv2)
                IN  /\ last'.ret = lo.ret + 256 * hi.ret
                    /\ last'.io \in {lo.io \o hi.io, hi.io \o lo.io}
           /\ UNCHANGED <<mem_ram_, mem_rom_, banks_, latch>>
      /\ last'.op = "write_word" =>
           LET m1 == write_byte(Cur, last'.addr, LowByte(last'.val))
               m2 == write_byte(m1, Next16(last'.addr), HighByte(last'.val))
           IN  /\ mem_ram_' = m2.ram /\ mem_rom_' = m2.rom
               /\ banks_' = m2.banks /\ latch' = m2.latch
               /\ last'.io = m2.io
      /\ last'.op = "read_word_no_io" =>
           /\ last'.ret = mem_ram_[last'.addr]
                            + 256 * mem_ram_[Next16(last'.addr)]
           /\ UNCHANGED <<mem_ram_, mem_rom_, banks_, latch>>
      /\ last'.op = "write_word_no_io" =>
           /\ mem_ram_'[last'.addr] = LowByte(last'.val)
           /\ mem_ram_'[Next16(last'.addr)] = HighByte(last'.val)
           /\ read_word_no_io(Cur', last'.addr) = last'.val ]_vars

\* write_word(0xD3FF, 0x0542) with I/O mapped: the low byte goes to the
\* video chip before the high byte goes to the sound chip
C13_Witness ==
  /\ last.op = "write_word" /\ last.addr = 54271 /\ last.val = 1346
  /\ last.io = << Call("vic", "write_register", 127, 66),
                  Call("sid", "write_register", 0, 5) >>

-----------------------------------------------------------------------------
(* The ROM image and the injections *)

\* the ROM image construction leaves: the built-in images at their base
\* addresses, the KERNAL one overlaid with the patches, zero elsewhere
BuiltRom(a) ==
  IF InBasicRegion(a) THEN basicRomC64(a - 40960)
  ELSE IF InCharenRegion(a) THEN charRomC64(a - 53248)
  ELSE IF InKernalRegion(a) THEN PatchedKernal(a)
  ELSE 0

(* C14: the ROM image is read-only after construction: in every reachable  *)
(* state every ROM byte equals its value right after construction (the     *)
(* built-in image overlaid with the patches), whatever accessor calls and  *)
(* bank reconfigurations were made.                                        *)
C14_RomReadOnly ==
  /\ \A a \in Addrs : mem_rom_[a] = BuiltRom(a)
  /\ mem_rom_ = Memory.rom

\* after three writes, among them a write to a patched KERNAL address under
\* ROM and a reconfiguration, the patched byte is still in the ROM image
C14_Witness ==
  /\ calls = 3
  /\ latch # 7
  /\ mem_ram_[60335] = 66
  /\ mem_rom_[60335] = 91

\* the load address and the program length the payload image encodes
PayloadL == paku_prg[1] + 256 * paku_prg[2]

PayloadN == paku_prg_size - 2

\* the payload is in RAM: the program bytes at L .. L+N-1 and the
\* top-of-program pointer at 0x2D/0x2E
Injected ==
  /\ \A i \in 0..(PayloadN - 1) :
       read_byte_no_io(Cur, PayloadL + i) = paku_prg[i + 3]
  /\ mem_ram_[45] = (2049 + PayloadN) % 256
  /\ mem_ram_[46] = (2049 + PayloadN) \div 256

HookWritten == last.op = "write_byte" /\ last.addr = 313 /\ last.val = 255

(* C15: immediately after construction, with no write performed  *)
(* yet, the payload is already injected: the N program bytes are at        *)
(* L .. L+N-1 and 0x2D/0x2E hold the little-endian encoding of 0x0801 + N. *)
C15_InjectedAtConstruction == last.op = "Memory" => Injected

-----------------------------------------------------------------------------
(* Reconfiguration *)

\* a core whose assignment is b and whose latch and images are blank
Prior(b) ==
  [ram |-> [a \in {kAddrMemoryLayout} |-> 0],
   rom |-> [a \in {kAddrMemoryLayout} |-> 0],
   banks |-> b, latch |-> 0, io |-> <<>>, patched |-> 0]

(* C16: bank recomputation is total, idempotent and history-independent:   *)
(* write_byte(kAddrMemoryLayout, v) leaves an assignment defined for each  *)
(* of the three regions that depends only on v (the one the same write    *)
(* gives from any other prior assignment and latch), and the same          *)
(* configuration write performed twice in a row leaves the whole state as  *)
(* performing it once.                                                     *)
C16_RecomputeIdempotent ==
  [][ ConfigWritten' =>
        /\ \A s \in {kBankBasic, kBankCharen, kBankKernal} :
             banks_'[s] \in {kROM, kRAM, kIO}
        /\ \A x \in {kROM, kRAM, kIO} :
             write_byte(Prior([i \in BankSlots |-> x]), kAddrMemoryLayout,
                        last'.val).banks = banks_'
        /\ (ConfigWritten /\ last.val = last'.val)
             => UNCHANGED <<mem_ram_, mem_rom_, banks_, latch>> ]_vars

\* the configuration 0x35 written after an earlier call: BASIC and KERNAL
\* are RAM and CHAREN is I/O although construction had made both ROM
C16_Witness ==
  /\ ConfigWritten /\ last.val = 53 /\ calls >= 2
  /\ banks_[kBankBasic] = kRAM /\ banks_[kBankKernal] = kRAM
  /\ banks_[kBankCharen] = kIO
  /\ mem_ram_[kAddrMemoryLayout] = 53

(* C17: the ROM patch pass runs exactly once, during construction           *)
(* (last.patched counts its runs in the last call); no later operation, in *)
(* particular no write to the bank-configuration address, runs it or       *)
(* reloads the ROM images again.                                           *)
C17_PatchedOnce ==
  /\ last.op = "Memory" => last.patched = 1
  /\ last.op # "Memory" => last.patched = 0

\* the RAM addresses patch_ram stores to: the monitor image, the BRK
\* vector, the payload and the top-of-program pointer
InjectionTarget(a) ==
  \/ a >= 36864 /\ a <= 41086
  \/ a \in {790, 791, 45, 46}
  \/ a >= PayloadL /\ a < PayloadL + PayloadN

\* the byte write (kind, at, v) stores to RAM address a
ByteWrites(kind, at, v, a) ==
  \/ at = a
  \/ kind = "io" /\ at = 313 /\ v = 255 /\ InjectionTarget(a)

\* the call recorded in rec writes RAM address a
WritesAddr(rec, a) ==
  \/ rec.op = "write_byte" /\ ByteWrites("io", rec.addr, rec.val, a)
  \/ rec.op = "write_byte_no_io" /\ ByteWrites("no_io", rec.addr, rec.val, a)
  \/ rec.op = "write_word"
       /\ \/ ByteWrites("io", rec.addr, LowByte(rec.val), a)
          \/ ByteWrites("io", Next16(rec.addr), HighByte(rec.val), a)
  \/ rec.op = "write_word_no_io"
       /\ \/ ByteWrites("no_io", rec.addr, LowByte(rec.val), a)
          \/ ByteWrites("no_io", Next16(rec.addr), HighByte(rec.val), a)

HiddenAddrs == BasicAddrs \cup KernalAddrs

(* C18: hidden RAM stays visible across reconfiguration: write_byte(a, v)  *)
(* at a BASIC or KERNAL address stores v in RAM also while the region is   *)
(* ROM; no bank reconfiguration and no access that does not write a        *)
(* changes that RAM byte; whenever the region is RAM read_byte(a) returns  *)
(* that RAM byte; and a write to the bank-configuration address changes no *)
(* RAM byte other than the one at the configuration address.               *)
C18_HiddenRamKept ==
  [][ /\ (last'.op = "write_byte" /\ last'.addr \in HiddenAddrs)
           => mem_ram_'[last'.addr] = last'.val
      /\ \A a \in HiddenAddrs :
           ~WritesAddr(last', a) => mem_ram_'[a] = mem_ram_[a]
      /\ ConfigWritten' =>
           \A a \in Addrs \ {kAddrMemoryLayout} : mem_ram_'[a] = mem_ram_[a]
      /\ ( /\ last'.op = "read_byte"
           /\ \/ InBasicRegion(last'.addr) /\ banks_[kBankBasic] = kRAM
              \/ InKernalRegion(last'.addr) /\ banks_[kBankKernal] = kRAM )
           => last'.ret = mem_ram_[last'.addr] ]_vars

\* 66 was written at 0xA000 under BASIC ROM by the first call; the second
\* call has switched BASIC to RAM and read_byte now returns the 66
C18_Witness ==
  /\ calls = 2 /\ ConfigWritten
  /\ banks_[kBankBasic] = kRAM
  /\ mem_ram_[40960] = 66
  /\ read_byte(Cur, 40960, 17).ret = 66
  /\ mem_rom_[40960] # 66

\* the assignment b is the rule table applied to the byte v
RulesMatch(b, v) ==
  /\ b[kBankKernal] = (IF Hiram(v) THEN kROM ELSE kRAM)
  /\ b[kBankBasic] = (IF Loram(v) /\ Hiram(v) THEN kROM ELSE kRAM)
  /\ b[kBankCharen] =
       (IF Charen(v)
          THEN (IF Loram(v) \/ Hiram(v) THEN kIO ELSE kRAM)
          ELSE kROM)

\* the call recorded in rec stores to the bank-configuration address
\* through the no-I/O path
NoIoAtConfig(rec) ==
  \/ rec.op = "write_byte_no_io" /\ rec.addr = kAddrMemoryLayout
  \/ rec.op = "write_word_no_io"
       /\ kAddrMemoryLayout \in {rec.addr, Next16(rec.addr)}

(* C19 as stated: in every reachable state, no-I/O writes at or across the *)
(* bank-configuration address included, the three region assignments equal *)
(* the rule table applied to the byte currently in RAM at the              *)
(* bank-configuration address.                                             *)
C19_LatchMatchesRam == RulesMatch(banks_, mem_ram_[kAddrMemoryLayout])

(* C19 amended: the assignments equal the rule table applied to the RAM    *)
(* byte at the bank-configuration address after construction and after     *)
(* every write_byte to that address (also the one write_word makes), and   *)
(* every call other than a no-I/O write at or across that address keeps    *)
(* them equal; such a no-I/O write stores its byte there and leaves the    *)
(* assignments as they were.                                               *)
C19_LatchMatchesUnlessNoIo ==
  [][ /\ last.op = "Memory" => RulesMatch(banks_, mem_ram_[kAddrMemoryLayout])
      /\ ConfigWritten' => RulesMatch(banks_', mem_ram_'[kAddrMemoryLayout])
      /\ ( /\ last'.op = "write_word"
           /\ kAddrMemoryLayout \in {last'.addr, Next16(last'.addr)} )
           => RulesMatch(banks_', mem_ram_'[kAddrMemoryLayout])
      /\ (RulesMatch(banks_, mem_ram_[kAddrMemoryLayout]) /\ ~NoIoAtConfig(last'))
           => RulesMatch(banks_', mem_ram_'[kAddrMemoryLayout])
      /\ NoIoAtConfig(last') =>
           /\ banks_' = banks_
           /\ mem_ram_'[kAddrMemoryLayout] =
                (IF last'.addr = kAddrMemoryLayout
                   THEN LowByte(last'.val) ELSE HighByte(last'.val)) ]_vars

\* write_byte_no_io(0x0001, 0x42) after construction: RAM holds 0x42
\* (LORAM clear) while BASIC is still ROM
C19_Witness ==
  /\ last.op = "write_byte_no_io" /\ last.addr = kAddrMemoryLayout
  /\ last.val = 66
  /\ mem_ram_[kAddrMemoryLayout] = 66
  /\ latch = 7
  /\ banks_[kBankBasic] = kROM

\* RAM after the injection on top of ram: the monitor image at
\* 0x9000..0xA07E, the BRK vector, then the payload and its pointer
InjectedOver(ram) ==
  [a \in Addrs |->
     IF a >= PayloadL /\ a < PayloadL + PayloadN
       THEN paku_prg[a - PayloadL + 3]
     ELSE IF a = 45 THEN (2049 + PayloadN) % 256
     ELSE IF a = 46 THEN (2049 + PayloadN) \div 256
     ELSE IF a = 790 THEN 0
     ELSE IF a = 791 THEN 144
     ELSE IF a >= 36864 /\ a <= 41086 THEN micromon(a - 36864 + 2)
     ELSE ram[a]]

\* outside the zero page and outside the peripheral windows
PlainAddr(a) == a >= 256 /\ Window(a) = "none"

(* C20: the injection hook fires on exactly one pair of the ordinary write *)
(* path: write_byte(313, 255) stores 255 at 313 and then injects the       *)
(* monitor image, the BRK vector bytes, the payload and the 0x2D/0x2E      *)
(* pointer; write_byte at any other address outside the zero page and the  *)
(* I/O windows, or at 313 with another value, changes exactly the RAM byte *)
(* at that address; write_byte_no_io(313, 255) changes the byte at 313     *)
(* only.                                                                   *)
C20_HookOnOnePair ==
  [][ LET a == last'.addr
          v == last'.val
          quiet == /\ mem_rom_' = mem_rom_
                   /\ banks_' = banks_
                   /\ latch' = latch
                   /\ last'.io = <<>>
      IN  /\ (last'.op = "write_byte" /\ a = 313 /\ v = 255) =>
               /\ quiet
               /\ mem_ram_' = InjectedOver([mem_ram_ EXCEPT ![313] = 255])
          /\ (last'.op = "write_byte" /\ PlainAddr(a) /\ ~(a = 313 /\ v = 255)) =>
               quiet /\ mem_ram_' = [mem_ram_ EXCEPT ![a] = v]
          /\ (last'.op = "write_byte_no_io" /\ a = 313 /\ v = 255) =>
               quiet /\ mem_ram_' = [mem_ram_ EXCEPT ![313] = 255]
    ]_vars

\* right after write_byte(313, 255): the trigger byte, the monitor image
\* and the BRK vector are in RAM
C20_Witness ==
  /\ HookWritten
  /\ mem_ram_[313] = 255
  /\ mem_ram_[36864] = micromon(2) /\ mem_ram_[40960] = micromon(4098)
  /\ mem_ram_[790] = 0 /\ mem_ram_[791] = 144
  /\ mem_ram_[2049] = paku_prg[3]

====
